---- MODULE Spec2Model ----
(***************************************************************************)
(* The rendering/export pipeline of web/src/main.rs: generate_html,        *)
(* packages_json and generate_fs_tree, run in that order by main over one  *)
(* (data, dates) snapshot.                                                 *)
(*                                                                         *)
(* Text is modelled as sequences of one-character strings, a path as a     *)
(* sequence of components (each component a text), the file system as a    *)
(* function from file paths to their content plus a set of directories.    *)
(* Every fallible call of the source (File::create, write!, writeln!,      *)
(* create_dir_all, render_template, render_to_write) is one step that      *)
(* either succeeds or fails; a failure unwinds through the `?` operators.  *)
(***************************************************************************)
EXTENDS Integers, Sequences, FiniteSets, TLC

\* Bounds of the model: the longest target and package enumerations and the
\* longest report date list.
MaxTargets == 2
MaxPkgs == 2
MaxDates == 2

-----------------------------------------------------------------------------
(* Text helpers *)

DigitChars == <<"0", "1", "2", "3", "4", "5", "6", "7", "8", "9">>

Digit(n) == DigitChars[n + 1]

SlashJson == <<".", "j", "s", "o", "n">>

\* Names the external data layer and the configuration supply.
TargetPool ==
    << <<"x", "8", "6">>, <<"a", "r", "m">>, <<"m", "i", "p", "s">>, <<"r", "v">> >>

PkgPool ==
    << <<"r", "u", "s", "t", "c">>, <<"c", "a", "r", "g", "o">>,
       <<"r", "l", "s">>, <<"m", "i", "r", "i">> >>

\* Package names as opaque strings: the data layer does not restrict the
\* characters of a name.
AnyPkgNames ==
    { <<"r", "c">>, <<"c">>, <<"r", "\"", "c">>, <<"c", "\\">> }

DatePool ==
    << [y |-> 2024, m |-> 1, d |-> 2], [y |-> 2024, m |-> 1, d |-> 1],
       [y |-> 2023, m |-> 12, d |-> 31], [y |-> 2023, m |-> 12, d |-> 30] >>

\* A date outside the report window a row may name as last_available.
EarlierDate == [y |-> 987, m |-> 11, d |-> 9]

\* The date the artifacts of an earlier run hold.
StaleDate == [y |-> 2020, m |-> 2, d |-> 29]

\* Option<NaiveDate>: None is the empty sequence, Some(d) is <<d>>.
None == << >>

Some(d) == <<d>>

OutRoot == << <<"o", "u", "t">> >>

HtmlRoot == << <<"h", "t", "m", "l">> >>

TemplatePath == << <<"t", "p", "l">> >>

PackagesJsonName == <<"p", "a", "c", "k", "a", "g", "e", "s">> \o SlashJson

IndexHtmlName == <<"i", "n", "d", "e", "x", ".", "h", "t", "m", "l">>

NoPath == << >>

\* A variant with the format "%Y-%d-%m".
FormatDateDayFirst(date) ==
    << Digit(date.y \div 1000), Digit((date.y \div 100) % 10),
       Digit((date.y \div 10) % 10), Digit(date.y % 10), "-",
       Digit(date.d \div 10), Digit(date.d % 10), "-",
       Digit(date.m \div 10), Digit(date.m % 10) >>

\* chrono's "%Y-%m-%d" for a year of 0..9999: zero-padded to 4, 2 and 2 digits.
FormatDate(date) ==
    << Digit(date.y \div 1000), Digit((date.y \div 100) % 10),
       Digit((date.y \div 10) % 10), Digit(date.y % 10), "-",
       Digit(date.m \div 10), Digit(date.m % 10), "-",
       Digit(date.d \div 10), Digit(date.d % 10) >>

\* Display of a bool.
FormatBool(b) == IF b THEN <<"t", "r", "u", "e">> ELSE <<"f", "a", "l", "s", "e">>

Quote(s) == <<"\"">> \o s \o <<"\"">>

Prefixes(path) == { SubSeq(path, 1, k) : k \in 1..Len(path) }

\* The lists of booleans of the lengths in `lens`.
BoolSeqs(lens) == UNION { [1..k -> BOOLEAN] : k \in lens }

-----------------------------------------------------------------------------
(* Paths *)

\* Path::join of a single relative component.
Join(path, name) == Append(path, name)

\* The output pattern "html/{{target}}/index.html" rendered for a target.
RenderPath(target) == <<HtmlRoot[1], target, IndexHtmlName>>

Parent(path) == SubSeq(path, 1, Len(path) - 1)

PackagesJsonPath == Join(OutRoot, PackagesJsonName)

TargetPath(target) == Join(OutRoot, target)

MarkerPath(target, pkg) == Join(TargetPath(target), pkg)

JsonPath(target, pkg) == Join(TargetPath(target), pkg \o SlashJson)

-----------------------------------------------------------------------------
(* File system and error values *)

\* A variant that opens an existing file without truncating it.
FileCreateKeep(files, path) ==
    [q \in (DOMAIN files) \cup {path} |-> IF q \in DOMAIN files THEN files[q] ELSE << >>]

\* File::create: the file exists afterwards and is empty (an existing file is
\* truncated).
FileCreate(files, path) ==
    [q \in (DOMAIN files) \cup {path} |-> IF q = path THEN << >> ELSE files[q]]

\* A write through an open handle appends at the handle's position.
FileWrite(files, path, data) == [files EXCEPT ![path] = @ \o data]

\* create_dir_all: the directory and every missing ancestor.
CreateDirAll(ds, path) == ds \cup Prefixes(path)

\* A variant that keeps every handle alive (the Files collected in a Vec).
DropNothing(handles, path) == handles

\* Dropping a File closes its handle.
Drop(handles, path) == handles \ {path}

\* What a failed write leaves behind: the data short of its end (format_args!
\* reaches the unbuffered File in several pieces), nothing of a single character.
PartialWrites(data) ==
    { SubSeq(data, 1, k) : k \in {Len(data) - 1} \cap (0..Len(data)) }

\* std::io::Error and handlebars' errors carry no path of their own.
IoError == [msg |-> "io error", path |-> NoPath]

TemplateError == [msg |-> "template error", path |-> NoPath]

\* A variant whose context message leaves the path out.
WithContextNoPath(chain, msg, path) == <<[msg |-> msg, path |-> NoPath]>> \o chain

\* anyhow's with_context: the context is the outermost message of the chain.
WithContext(chain, msg, path) == <<[msg |-> msg, path |-> path]>> \o chain

NoError == << >>

Event(pass, op, path, ok, data) ==
    [pass |-> pass, op |-> op, path |-> path, ok |-> ok, data |-> data]

-----------------------------------------------------------------------------
(* Formats *)

\* The page a template renders for a target (the template is configuration).
Page(target) == <<"<", "h", "1", ">">> \o target \o <<"<", "/", "h", "1", ">">>

\* itertools' with_position of element i of n.
Position(i, n) ==
    IF n = 1 THEN "Only"
    ELSE IF i = 1 THEN "First"
    ELSE IF i = n THEN "Last"
    ELSE "Middle"

\* One element line of packages.json.
PkgLine(names, i) ==
    IF Position(i, Len(names)) \in {"Only", "Last"}
    THEN Quote(names[i]) \o <<"\n">>
    ELSE Quote(names[i]) \o <<",", "\n">>

\* writeln!(f, "{}", date.format("%Y-%m-%d"))
MarkerLine(date) == FormatDate(date) \o <<"\n">>

\* write!(f, "\"{}\":{},", date.format("%Y-%m-%d"), avail)
JsonDateEntry(date, avail) ==
    Quote(FormatDate(date)) \o <<":">> \o FormatBool(avail) \o <<",">>

LastAvailableKey == <<"l", "a", "s", "t", "_", "a", "v", "a", "i", "l", "a", "b", "l", "e">>

\* A variant that writes an empty string for a row without last_available.
JsonLastEntryEmptyString(last) ==
    IF last # None
    THEN Quote(LastAvailableKey) \o <<":">> \o Quote(FormatDate(last[1]))
    ELSE Quote(LastAvailableKey) \o <<":">> \o Quote(<< >>)

JsonLastEntry(last) ==
    IF last # None
    THEN Quote(LastAvailableKey) \o <<":">> \o Quote(FormatDate(last[1]))
    ELSE Quote(LastAvailableKey) \o <<":", "n", "u", "l", "l">>

\* A variant that creates the marker file for every row.
ShouldWriteMarkerAlways(row) == TRUE

\* if let Some(date) = row.last_available
ShouldWriteMarker(row) == row.last_available # None

\* A variant that accepts a row with more values than dates.
ShouldWriteJsonAtLeast(ds, row) == Len(ds) <= Len(row.availability_list)

\* if dates.len() == row.availability_list.len()
ShouldWriteJson(ds, row) == Len(ds) = Len(row.availability_list)

-----------------------------------------------------------------------------
(* State *)

VARIABLES
    pc,       \* the statement the run is at
    targets,  \* data.get_available_targets()
    pkgs,     \* data.get_available_packages()
    dates,    \* the report date list
    ti,       \* index of the target being processed
    pi,       \* index of the package being processed
    di,       \* index of the date or package line being written
    rows,     \* the rows data.get_availability_row has returned, by <<target, package>>
    fs,       \* the files on disk: path -> content
    dirs,     \* the directories on disk
    fs0,      \* the files on disk when the run started
    open,     \* the paths of the File handles alive
    err,      \* the error main returns: a chain of messages, outermost first
    log       \* the I/O calls made so far, in order

vars == <<pc, targets, pkgs, dates, ti, pi, di, rows, fs, dirs, fs0, open, err, log>>

inputs == <<targets, pkgs, dates, fs0>>

Target == targets[ti]

Pkg == pkgs[pi]

Row == rows[<<Target, Pkg>>]

\* What get_availability_row may return for the date list `ds`: a list with
\* one value per date, or one value short or one too many (within the bound),
\* and an optional date.
Rows(ds) ==
    [availability_list :
        BoolSeqs({Len(ds) - 1, Len(ds), Len(ds) + 1} \cap (0..MaxDates)),
     last_available : {None, Some(EarlierDate)}]

EmptyFs == << >>

StaleNames(pool, n) == { pool[i] : i \in 1..(n + 1) }

\* The tree an earlier run left: a marker and a map for every pair of the
\* pools, and a package list.
StalePaths ==
    {PackagesJsonPath}
    \cup { MarkerPath(t, p) : t \in StaleNames(TargetPool, MaxTargets),
                              p \in StaleNames(PkgPool, MaxPkgs) }
    \cup { JsonPath(t, p) : t \in StaleNames(TargetPool, MaxTargets),
                            p \in StaleNames(PkgPool, MaxPkgs) }

StaleContent(path) ==
    IF path = PackagesJsonPath THEN <<"[", "\n", "\"", "o", "l", "d", "\"", "\n", "]", "\n">>
    ELSE IF path \in { MarkerPath(t, p) : t \in StaleNames(TargetPool, MaxTargets),
                                          p \in StaleNames(PkgPool, MaxPkgs) }
    THEN MarkerLine(StaleDate)
    ELSE <<"{">> \o JsonLastEntry(Some(StaleDate)) \o <<"}">>

StaleFs == [path \in StalePaths |-> StaleContent(path)]

DirsOf(files) == {OutRoot} \cup UNION { Prefixes(Parent(path)) : path \in DOMAIN files }

Enumerations(pool, n) == { SubSeq(pool, 1, k) : k \in 0..n }

\* The state main is in before generate_html, over the files `files`.
Start(files) ==
    /\ pc = "html_template"
    /\ targets \in Enumerations(TargetPool, MaxTargets)
    /\ pkgs \in Enumerations(PkgPool, MaxPkgs)
    /\ dates \in Enumerations(DatePool, MaxDates)
    /\ ti = 1 /\ pi = 1 /\ di = 1
    /\ rows = << >>
    /\ fs0 = files
    /\ fs = fs0
    /\ dirs = DirsOf(fs0)
    /\ open = {}
    /\ err = NoError
    /\ log = << >>

\* A run into an empty destination root.
Init == Start(EmptyFs)

\* A run into a destination root that holds the tree of an earlier run.
InitStale == Start(StaleFs)

-----------------------------------------------------------------------------
(* main *)

\* generate_html(..)?; generate_fs_tree(..)?; Ok(())
main_html_ok == "pj_create"

\* A variant of main that drops the result of generate_html.
main_html_err_ignored == "pj_create"

main_html_err == "aborted"

main_tree_ok == "done"

main_tree_err == "aborted"

-----------------------------------------------------------------------------
(* generate_html *)

html_iter(i) == IF i <= Len(targets) THEN "html_path" ELSE main_html_ok

\* A variant that gives up on the target only and goes on with the next.
pattern_failure_skip(i) ==
    [pc |-> html_iter(i + 1), ti |-> IF i < Len(targets) THEN i + 1 ELSE 1]

\* What a failure of render_template does to the loop: `?` leaves the function.
pattern_failure(i) == [pc |-> main_html_err, ti |-> i]

html_abort(chain) ==
    /\ pc' = main_html_err
    /\ err' = chain
    /\ open' = {}

generate_html_register_template ==
    /\ pc = "html_template"
    /\ \E ok \in BOOLEAN :
        /\ log' = Append(log, Event("html", "template", TemplatePath, ok, << >>))
        /\ IF ok
           THEN /\ pc' = html_iter(1)
                /\ UNCHANGED <<err, open>>
           ELSE html_abort(WithContext(<<TemplateError>>, "File path", TemplatePath))
    /\ UNCHANGED <<inputs, ti, pi, di, rows, fs, dirs>>

generate_html_render_path ==
    /\ pc = "html_path"
    /\ \E ok \in BOOLEAN :
        /\ log' = Append(log, Event("html", "pattern", RenderPath(Target), ok, << >>))
        /\ IF ok
           THEN /\ pc' = "html_mkdir"
                /\ UNCHANGED <<err, open, ti>>
           ELSE /\ pc' = pattern_failure(ti).pc
                /\ ti' = pattern_failure(ti).ti
                /\ err' = WithContext(<<TemplateError>>, "Invalid output pattern", NoPath)
                /\ open' = {}
    /\ UNCHANGED <<inputs, pi, di, rows, fs, dirs>>

generate_html_create_dir ==
    /\ pc = "html_mkdir"
    /\ \E ok \in BOOLEAN :
        /\ log' = Append(log, Event("html", "mkdir", Parent(RenderPath(Target)), ok, << >>))
        /\ IF ok
           THEN /\ dirs' = CreateDirAll(dirs, Parent(RenderPath(Target)))
                /\ pc' = "html_create"
                /\ UNCHANGED <<err, open>>
           ELSE /\ html_abort(WithContext(<<IoError>>, "Can't create path",
                                          Parent(RenderPath(Target))))
                /\ UNCHANGED dirs
    /\ UNCHANGED <<inputs, ti, pi, di, rows, fs>>

generate_html_create_file ==
    /\ pc = "html_create"
    /\ \E ok \in BOOLEAN :
        /\ log' = Append(log, Event("html", "create", RenderPath(Target), ok, << >>))
        /\ IF ok
           THEN /\ fs' = FileCreate(fs, RenderPath(Target))
                /\ open' = open \cup {RenderPath(Target)}
                /\ pc' = "html_render"
                /\ UNCHANGED err
           ELSE /\ html_abort(WithContext(<<IoError>>, "Can't create file",
                                          RenderPath(Target)))
                /\ UNCHANGED fs
    /\ UNCHANGED <<inputs, ti, pi, di, rows, dirs>>

\* render_to_write takes the File by value: it is dropped when the call returns.
generate_html_render_to_write ==
    /\ pc = "html_render"
    /\ \/ /\ log' = Append(log, Event("html", "write", RenderPath(Target), TRUE, Page(Target)))
          /\ fs' = FileWrite(fs, RenderPath(Target), Page(Target))
          /\ open' = Drop(open, RenderPath(Target))
          /\ pc' = html_iter(ti + 1)
          /\ ti' = IF ti < Len(targets) THEN ti + 1 ELSE 1
          /\ UNCHANGED err
       \/ \E part \in PartialWrites(Page(Target)) :
          /\ log' = Append(log, Event("html", "write", RenderPath(Target), FALSE, part))
          /\ fs' = FileWrite(fs, RenderPath(Target), part)
          /\ html_abort(WithContext(<<TemplateError>>, "Can't render", TemplatePath))
          /\ UNCHANGED ti
    /\ UNCHANGED <<inputs, pi, di, rows, dirs>>

-----------------------------------------------------------------------------
(* packages_json *)

tree_abort(chain) ==
    /\ pc' = main_tree_err
    /\ err' = chain
    /\ open' = {}

tree_target_iter(i) == IF i <= Len(targets) THEN "t_mkdir" ELSE main_tree_ok

\* The context generate_fs_tree gives every error of packages_json.
packages_json_context(chain) == WithContext(chain, "packages.json", <<PackagesJsonName>>)

packages_json_create ==
    /\ pc = "pj_create"
    /\ \E ok \in BOOLEAN :
        /\ log' = Append(log, Event("tree", "create", PackagesJsonPath, ok, << >>))
        /\ IF ok
           THEN /\ fs' = FileCreate(fs, PackagesJsonPath)
                /\ open' = open \cup {PackagesJsonPath}
                /\ pc' = "pj_open"
                /\ UNCHANGED err
           ELSE /\ tree_abort(packages_json_context(<<IoError>>))
                /\ UNCHANGED fs
    /\ UNCHANGED <<inputs, ti, pi, di, rows, dirs>>

\* One write call on the handle at `path`: the data on success, a part of it
\* and the unwinding on failure.
tree_write(path, data, chain) ==
    \/ /\ log' = Append(log, Event("tree", "write", path, TRUE, data))
       /\ fs' = FileWrite(fs, path, data)
       /\ UNCHANGED err
    \/ \E part \in PartialWrites(data) :
       /\ log' = Append(log, Event("tree", "write", path, FALSE, part))
       /\ fs' = FileWrite(fs, path, part)
       /\ tree_abort(chain)

written == err' = err

packages_json_open ==
    /\ pc = "pj_open"
    /\ tree_write(PackagesJsonPath, <<"[", "\n">>, packages_json_context(<<IoError>>))
    /\ written => /\ pc' = IF Len(pkgs) > 0 THEN "pj_line" ELSE "pj_close"
                  /\ UNCHANGED open
    /\ di' = 1
    /\ UNCHANGED <<inputs, ti, pi, rows, dirs>>

packages_json_line ==
    /\ pc = "pj_line"
    /\ tree_write(PackagesJsonPath, PkgLine(pkgs, di), packages_json_context(<<IoError>>))
    /\ written => /\ pc' = IF di < Len(pkgs) THEN "pj_line" ELSE "pj_close"
                  /\ UNCHANGED open
    /\ di' = di + 1
    /\ UNCHANGED <<inputs, ti, pi, rows, dirs>>

\* writeln!(f, "]") is the function's result: f is dropped as it returns.
packages_json_close ==
    /\ pc = "pj_close"
    /\ tree_write(PackagesJsonPath, <<"]", "\n">>, packages_json_context(<<IoError>>))
    /\ written => /\ pc' = tree_target_iter(1)
                  /\ open' = Drop(open, PackagesJsonPath)
    /\ di' = 1
    /\ UNCHANGED <<inputs, ti, pi, rows, dirs>>

-----------------------------------------------------------------------------
(* generate_fs_tree *)

\* The bottom of the package loop: the next package, else the next target.
end_of_pkg ==
    IF pi < Len(pkgs)
    THEN /\ pc' = "row" /\ pi' = pi + 1 /\ ti' = ti
    ELSE /\ pc' = tree_target_iter(ti + 1)
         /\ ti' = IF ti < Len(targets) THEN ti + 1 ELSE ti
         /\ pi' = 1

\* After the marker block: the availability map, or nothing.
after_marker(row) ==
    IF ShouldWriteJson(dates, row)
    THEN /\ pc' = "j_create" /\ UNCHANGED <<ti, pi>>
    ELSE end_of_pkg

\* dates.iter().zip(row.availability_list.iter()) stops at the shorter one.
ZipLen(ds, row) ==
    IF Len(ds) <= Len(row.availability_list) THEN Len(ds) ELSE Len(row.availability_list)

generate_fs_tree_create_dir ==
    /\ pc = "t_mkdir"
    /\ \E ok \in BOOLEAN :
        /\ log' = Append(log, Event("tree", "mkdir", TargetPath(Target), ok, << >>))
        /\ IF ok
           THEN /\ dirs' = CreateDirAll(dirs, TargetPath(Target))
                /\ IF Len(pkgs) > 0
                   THEN pc' = "row" /\ ti' = ti
                   ELSE /\ pc' = tree_target_iter(ti + 1)
                        /\ ti' = IF ti < Len(targets) THEN ti + 1 ELSE ti
                /\ UNCHANGED <<err, open>>
           ELSE /\ tree_abort(WithContext(<<IoError>>, "Can't create path", TargetPath(Target)))
                /\ UNCHANGED <<dirs, ti>>
    /\ pi' = 1
    /\ UNCHANGED <<inputs, di, rows, fs>>

generate_fs_tree_get_row ==
    /\ pc = "row"
    /\ \E row \in Rows(dates) :
        /\ rows' = (<<Target, Pkg>> :> row) @@ rows
        /\ IF ShouldWriteMarker(row)
           THEN /\ pc' = "m_create" /\ UNCHANGED <<ti, pi>>
           ELSE after_marker(row)
    /\ UNCHANGED <<inputs, di, fs, dirs, open, err, log>>

generate_fs_tree_marker_create ==
    /\ pc = "m_create"
    /\ \E ok \in BOOLEAN :
        /\ log' = Append(log, Event("tree", "create", MarkerPath(Target, Pkg), ok, << >>))
        /\ IF ok
           THEN /\ fs' = FileCreate(fs, MarkerPath(Target, Pkg))
                /\ open' = open \cup {MarkerPath(Target, Pkg)}
                /\ pc' = "m_write"
                /\ UNCHANGED err
           ELSE /\ tree_abort(WithContext(<<IoError>>, "Can't create file",
                                          MarkerPath(Target, Pkg)))
                /\ UNCHANGED fs
    /\ UNCHANGED <<inputs, ti, pi, di, rows, dirs>>

\* The write is the last statement of the `if let` block: f is dropped there.
generate_fs_tree_marker_write ==
    /\ pc = "m_write"
    /\ tree_write(MarkerPath(Target, Pkg), MarkerLine(Row.last_available[1]), <<IoError>>)
    /\ IF written
       THEN /\ open' = Drop(open, MarkerPath(Target, Pkg))
            /\ after_marker(Row)
       ELSE UNCHANGED <<ti, pi>>
    /\ UNCHANGED <<inputs, di, rows, dirs>>

generate_fs_tree_json_create ==
    /\ pc = "j_create"
    /\ \E ok \in BOOLEAN :
        /\ log' = Append(log, Event("tree", "create", JsonPath(Target, Pkg), ok, << >>))
        /\ IF ok
           THEN /\ fs' = FileCreate(fs, JsonPath(Target, Pkg))
                /\ open' = open \cup {JsonPath(Target, Pkg)}
                /\ pc' = "j_open"
                /\ UNCHANGED err
           ELSE /\ tree_abort(WithContext(<<IoError>>, "Can't create file",
                                          JsonPath(Target, Pkg)))
                /\ UNCHANGED fs
    /\ UNCHANGED <<inputs, ti, pi, di, rows, dirs>>

generate_fs_tree_json_open ==
    /\ pc = "j_open"
    /\ tree_write(JsonPath(Target, Pkg), <<"{">>, <<IoError>>)
    /\ written => /\ pc' = IF ZipLen(dates, Row) > 0 THEN "j_date" ELSE "j_last"
                  /\ UNCHANGED open
    /\ di' = 1
    /\ UNCHANGED <<inputs, ti, pi, rows, dirs>>

generate_fs_tree_json_date ==
    /\ pc = "j_date"
    /\ tree_write(JsonPath(Target, Pkg),
                  JsonDateEntry(dates[di], Row.availability_list[di]), <<IoError>>)
    /\ written => /\ pc' = IF di < ZipLen(dates, Row) THEN "j_date" ELSE "j_last"
                  /\ UNCHANGED open
    /\ di' = di + 1
    /\ UNCHANGED <<inputs, ti, pi, rows, dirs>>

generate_fs_tree_json_last ==
    /\ pc = "j_last"
    /\ tree_write(JsonPath(Target, Pkg), JsonLastEntry(Row.last_available), <<IoError>>)
    /\ written => /\ pc' = "j_close"
                  /\ UNCHANGED open
    /\ UNCHANGED <<inputs, ti, pi, di, rows, dirs>>

\* write!(f, "}}") ends the block: f is dropped there.
generate_fs_tree_json_close ==
    /\ pc = "j_close"
    /\ tree_write(JsonPath(Target, Pkg), <<"}">>, <<IoError>>)
    /\ IF written
       THEN /\ open' = Drop(open, JsonPath(Target, Pkg))
            /\ end_of_pkg
       ELSE UNCHANGED <<ti, pi>>
    /\ UNCHANGED <<inputs, di, rows, dirs>>

-----------------------------------------------------------------------------
(* Specifications *)

Next ==
    \/ generate_html_register_template
    \/ generate_html_render_path
    \/ generate_html_create_dir
    \/ generate_html_create_file
    \/ generate_html_render_to_write
    \/ packages_json_create
    \/ packages_json_open
    \/ packages_json_line
    \/ packages_json_close
    \/ generate_fs_tree_create_dir
    \/ generate_fs_tree_get_row
    \/ generate_fs_tree_marker_create
    \/ generate_fs_tree_marker_write
    \/ generate_fs_tree_json_create
    \/ generate_fs_tree_json_open
    \/ generate_fs_tree_json_date
    \/ generate_fs_tree_json_last
    \/ generate_fs_tree_json_close

Spec == Init /\ [][Next]_vars

SpecStale == InitStale /\ [][Next]_vars

\* packages_json alone, over any enumeration of package names.
PkgEnumerations == UNION { [1..k -> AnyPkgNames] : k \in 0..(MaxPkgs + 1) }

InitPkgs ==
    /\ pc = "pj_create"
    /\ targets = << >>
    /\ pkgs \in PkgEnumerations
    /\ dates = << >>
    /\ ti = 1 /\ pi = 1 /\ di = 1
    /\ rows = << >>
    /\ fs0 = EmptyFs
    /\ fs = fs0
    /\ dirs = DirsOf(fs0)
    /\ open = {}
    /\ err = NoError
    /\ log = << >>

NextPkgs ==
    \/ packages_json_create
    \/ packages_json_open
    \/ packages_json_line
    \/ packages_json_close

SpecPkgs == InitPkgs /\ [][NextPkgs]_vars

-----------------------------------------------------------------------------
(* Readers of the produced formats, used to state the properties *)

IsDigit(c) == \E i \in 1..10 : DigitChars[i] = c

DigitVal(c) == (CHOOSE i \in 1..10 : DigitChars[i] = c) - 1

\* Is `s` a date written YYYY-MM-DD, and which.
IsDateText(s) ==
    /\ Len(s) = 10
    /\ s[5] = "-" /\ s[8] = "-"
    /\ \A i \in {1, 2, 3, 4, 6, 7, 9, 10} : IsDigit(s[i])

DateOfText(s) ==
    [y |-> 1000 * DigitVal(s[1]) + 100 * DigitVal(s[2]) + 10 * DigitVal(s[3]) + DigitVal(s[4]),
     m |-> 10 * DigitVal(s[6]) + DigitVal(s[7]),
     d |-> 10 * DigitVal(s[9]) + DigitVal(s[10])]

ReadsAsDate(s, date) == IsDateText(s) /\ DateOfText(s) = date

Whitespace == {" ", "\n", "\t", "\r"}

RECURSIVE SkipWs(_, _)
SkipWs(s, i) == IF i <= Len(s) /\ s[i] \in Whitespace THEN SkipWs(s, i + 1) ELSE i

At(s, i) == IF i <= Len(s) THEN s[i] ELSE "EOF"

Lit(s, i, w) == i + Len(w) - 1 <= Len(s) /\ SubSeq(s, i, i + Len(w) - 1) = w

NoToken == [ok |-> FALSE, kind |-> "none", text |-> << >>, next |-> 0]

\* A JSON string from the character after its opening quote: it ends at the
\* first unescaped quote; a backslash escapes the next character; a raw
\* control character is an error.
RECURSIVE ScanString(_, _, _)
ScanString(s, i, acc) ==
    IF i > Len(s) THEN NoToken
    ELSE IF s[i] = "\"" THEN [ok |-> TRUE, kind |-> "string", text |-> acc, next |-> i + 1]
    ELSE IF s[i] = "\\"
         THEN IF At(s, i + 1) \in {"\"", "\\", "/"}
              THEN ScanString(s, i + 2, Append(acc, s[i + 1]))
              ELSE NoToken
    ELSE IF s[i] \in {"\n", "\t", "\r"} THEN NoToken
    ELSE ScanString(s, i + 1, Append(acc, s[i]))

JsonTrue == <<"t", "r", "u", "e">>

JsonFalse == <<"f", "a", "l", "s", "e">>

JsonNull == <<"n", "u", "l", "l">>

\* A JSON value at position i: a string or one of the three literals.
ScanValue(s, i) ==
    IF At(s, i) = "\"" THEN ScanString(s, i + 1, << >>)
    ELSE IF Lit(s, i, JsonTrue)
         THEN [ok |-> TRUE, kind |-> "true", text |-> << >>, next |-> i + 4]
    ELSE IF Lit(s, i, JsonFalse)
         THEN [ok |-> TRUE, kind |-> "false", text |-> << >>, next |-> i + 5]
    ELSE IF Lit(s, i, JsonNull)
         THEN [ok |-> TRUE, kind |-> "null", text |-> << >>, next |-> i + 4]
    ELSE NoToken

NotJson == [ok |-> FALSE, items |-> << >>]

\* The elements of a JSON array of strings from its first element on.
RECURSIVE ScanElements(_, _, _)
ScanElements(s, i, acc) ==
    IF At(s, i) # "\"" THEN NotJson
    ELSE LET str == ScanString(s, i + 1, << >>)
             j == SkipWs(s, str.next)
         IN  IF ~str.ok THEN NotJson
             ELSE IF At(s, j) = ","
                  THEN ScanElements(s, SkipWs(s, j + 1), Append(acc, str.text))
             ELSE IF At(s, j) = "]" /\ SkipWs(s, j + 1) > Len(s)
                  THEN [ok |-> TRUE, items |-> Append(acc, str.text)]
             ELSE NotJson

\* `s` read as a JSON array of strings.
ReadStringArray(s) ==
    LET i == SkipWs(s, 1)
        j == SkipWs(s, i + 1)
    IN  IF At(s, i) # "[" THEN NotJson
        ELSE IF At(s, j) = "]"
             THEN IF SkipWs(s, j + 1) > Len(s) THEN [ok |-> TRUE, items |-> << >>] ELSE NotJson
        ELSE ScanElements(s, j, << >>)

\* The members of a JSON object from its first member on, in order.
RECURSIVE ScanMembers(_, _, _)
ScanMembers(s, i, acc) ==
    IF At(s, i) # "\"" THEN NotJson
    ELSE LET key == ScanString(s, i + 1, << >>)
             c == SkipWs(s, key.next)
             val == ScanValue(s, SkipWs(s, c + 1))
             j == SkipWs(s, val.next)
             member == [key |-> key.text, kind |-> val.kind, text |-> val.text]
         IN  IF ~key.ok \/ At(s, c) # ":" THEN NotJson
             ELSE IF ~val.ok THEN NotJson
             ELSE IF At(s, j) = ","
                  THEN ScanMembers(s, SkipWs(s, j + 1), Append(acc, member))
             ELSE IF At(s, j) = "}" /\ SkipWs(s, j + 1) > Len(s)
                  THEN [ok |-> TRUE, items |-> Append(acc, member)]
             ELSE NotJson

\* `s` read as a JSON object: its members in the order written.
ReadObject(s) ==
    LET i == SkipWs(s, 1)
        j == SkipWs(s, i + 1)
    IN  IF At(s, i) # "{" THEN NotJson
        ELSE IF At(s, j) = "}"
             THEN IF SkipWs(s, j + 1) > Len(s) THEN [ok |-> TRUE, items |-> << >>] ELSE NotJson
        ELSE ScanMembers(s, j, << >>)

\* The lines of a text, each without its newline; the text after the last
\* newline is the last element.
RECURSIVE SplitLines(_, _, _)
SplitLines(s, i, cur) ==
    IF i > Len(s) THEN <<cur>>
    ELSE IF s[i] = "\n" THEN <<cur>> \o SplitLines(s, i + 1, << >>)
    ELSE SplitLines(s, i + 1, Append(cur, s[i]))

-----------------------------------------------------------------------------
(* Vocabulary of the properties *)

\* The (target, package) pairs of the run.
Pairs == { <<targets[i], pkgs[j]>> : i \in DOMAIN targets, j \in DOMAIN pkgs }

\* The pairs whose row has been fetched.
Fetched == DOMAIN rows

Matches(row) == Len(row.availability_list) = Len(dates)

\* The package loop's body is over for the pair: the run is past it.
Finished(pair) ==
    /\ pair \in Fetched
    /\ pc = "done" \/ pair # <<targets[ti], pkgs[pi]>>

Created(path) ==
    \E k \in DOMAIN log : log[k].op = "create" /\ log[k].ok /\ log[k].path = path

Touched(path) ==
    \E k \in DOMAIN log : log[k].op \in {"create", "write"} /\ log[k].path = path

HtmlFailed == \E k \in DOMAIN log : log[k].pass = "html" /\ ~log[k].ok

TreeStarted == \E k \in DOMAIN log : log[k].pass = "tree"

\* The paths the messages of the error chain spell out.
ChainPaths == { err[i].path : i \in DOMAIN err } \ {NoPath}

-----------------------------------------------------------------------------
(* C1 *)

JsonHoldsRow(content, row) ==
    LET obj == ReadObject(content)
        n == Len(dates)
    IN  /\ obj.ok
        /\ Len(obj.items) = n + 1
        /\ \A i \in 1..n :
            /\ ReadsAsDate(obj.items[i].key, dates[i])
            /\ obj.items[i].kind = IF row.availability_list[i] THEN "true" ELSE "false"
        /\ obj.items[n + 1].key = LastAvailableKey
        /\ IF row.last_available = None
           THEN obj.items[n + 1].kind = "null"
           ELSE /\ obj.items[n + 1].kind = "string"
                /\ ReadsAsDate(obj.items[n + 1].text, row.last_available[1])

\* C1: once the package loop is past a pair whose row has as many availability
\* values as there are report dates, <root>/<target>/<package>.json exists and
\* reads as a JSON object of exactly len(dates)+1 members: one per date, in the
\* order of the dates, keyed YYYY-MM-DD with the boolean of the same position,
\* then last_available with the date string, or null when the row has none.
C1_JsonArtifact ==
    \A pair \in Fetched :
        (Finished(pair) /\ Matches(rows[pair])) =>
            /\ JsonPath(pair[1], pair[2]) \in DOMAIN fs
            /\ JsonHoldsRow(fs[JsonPath(pair[1], pair[2])], rows[pair])

C1_Witness ==
    /\ pc = "done"
    /\ Len(dates) = 2
    /\ \E pair \in Pairs :
        /\ rows[pair].availability_list = <<TRUE, FALSE>>
        /\ rows[pair].last_available # None
    /\ \E pair \in Pairs :
        /\ Matches(rows[pair])
        /\ rows[pair].last_available = None

-----------------------------------------------------------------------------
(* C2 *)

\* C2: a row whose availability list differs in length from the date list
\* gets no <package>.json (no create or write is ever attempted on that path),
\* its marker file exists exactly when the row has a last_available date, the
\* run aborts only on a failed I/O call, is never stuck, and a run that ends
\* normally has fetched the row of every pair.
C2_MismatchSkipsJsonOnly ==
    /\ \A pair \in Fetched :
        ~Matches(rows[pair]) =>
            /\ ~Touched(JsonPath(pair[1], pair[2]))
            /\ JsonPath(pair[1], pair[2]) \notin DOMAIN fs
            /\ Finished(pair) =>
                (MarkerPath(pair[1], pair[2]) \in DOMAIN fs
                    <=> rows[pair].last_available # None)
    /\ pc = "aborted" => (log # << >> /\ ~log[Len(log)].ok)
    /\ pc \notin {"done", "aborted"} => ENABLED Next
    /\ pc = "done" => Fetched = Pairs

C2_Witness ==
    /\ pc = "done"
    /\ Len(targets) = 2 /\ Len(pkgs) = 2
    /\ ~Matches(rows[<<targets[1], pkgs[1]>>])
    /\ rows[<<targets[1], pkgs[1]>>].last_available # None
    /\ ~Matches(rows[<<targets[2], pkgs[1]>>])
    /\ rows[<<targets[2], pkgs[1]>>].last_available = None
    /\ Matches(rows[<<targets[1], pkgs[2]>>])
    /\ Matches(rows[<<targets[2], pkgs[2]>>])

-----------------------------------------------------------------------------
(* C3 *)

-----------------------------------------------------------------------------
(* C4 *)

MarkerWritten(pair) ==
    \E k \in DOMAIN log :
        log[k].op = "write" /\ log[k].ok /\ log[k].path = MarkerPath(pair[1], pair[2])

\* C4 as stated: a written marker file holds the ten characters of the date
\* and nothing else.
C4_MarkerIsDateOnly ==
    \A pair \in Fetched :
        MarkerWritten(pair) =>
            ReadsAsDate(fs[MarkerPath(pair[1], pair[2])], rows[pair].last_available[1])

\* C4, amended: a written marker file holds the date as YYYY-MM-DD followed by
\* exactly one newline character, and nothing else.
C4_MarkerIsDateLine ==
    \A pair \in Fetched :
        MarkerWritten(pair) =>
            LET content == fs[MarkerPath(pair[1], pair[2])]
            IN  /\ Len(content) = 11
                /\ ReadsAsDate(SubSeq(content, 1, 10), rows[pair].last_available[1])
                /\ content[11] = "\n"

C4_Witness ==
    /\ pc = "done"
    /\ \E pair \in Pairs : MarkerWritten(pair)

-----------------------------------------------------------------------------
(* C5 *)

\* C5: when packages_json has returned, packages.json is the line "[", one
\* line per package holding the quoted name, with a comma on every line but
\* the last, and the line "]", each ended by a newline; and it reads as a
\* JSON array of strings equal to the package enumeration.
C5_PackagesJsonRoundTrip ==
    pc = "done" =>
        LET content == fs[PackagesJsonPath]
            lines == SplitLines(content, 1, << >>)
            n == Len(pkgs)
            arr == ReadStringArray(content)
        IN  /\ Len(lines) = n + 3
            /\ lines[1] = <<"[">>
            /\ \A i \in 1..n :
                lines[i + 1] = <<"\"">> \o pkgs[i] \o <<"\"">>
                                \o (IF i < n THEN <<",">> ELSE << >>)
            /\ lines[n + 2] = <<"]">>
            /\ lines[n + 3] = << >>
            /\ arr.ok
            /\ arr.items = pkgs

-----------------------------------------------------------------------------
(* C6 *)

\* C6 as stated: every failed create, write or directory creation of the tree
\* pass aborts the run with an error whose chain names the path that failed
\* (the path itself, or at least its file name).
C6_ErrorNamesPath ==
    \A k \in DOMAIN log :
        (log[k].pass = "tree" /\ ~log[k].ok) =>
            /\ pc = "aborted"
            /\ \E named \in ChainPaths :
                /\ Len(named) <= Len(log[k].path)
                /\ named = SubSeq(log[k].path, Len(log[k].path) - Len(named) + 1,
                                  Len(log[k].path))

\* C6, amended: every such failure is the last I/O call of the run and aborts
\* it with an error. The chain names the failed path when a target directory,
\* a marker file or a <package>.json file could not be created; for
\* packages.json (create or write) it names the file name "packages.json"
\* only; for a failed write to a marker or <package>.json file it names no
\* path at all.
C6_ErrorContext ==
    \A k \in DOMAIN log :
        (log[k].pass = "tree" /\ ~log[k].ok) =>
            /\ k = Len(log)
            /\ pc = "aborted"
            /\ err # NoError
            /\ IF log[k].path = PackagesJsonPath
               THEN ChainPaths = {<<PackagesJsonName>>}
               ELSE IF log[k].op \in {"mkdir", "create"}
               THEN ChainPaths = {log[k].path}
               ELSE ChainPaths = {}

C6_Witness ==
    /\ pc = "aborted"
    /\ Len(targets) >= 1
    /\ Len(pkgs) = 2
    /\ log[Len(log)].op = "create"
    /\ log[Len(log)].path = JsonPath(targets[1], pkgs[2])
    /\ Created(MarkerPath(targets[1], pkgs[1]))

-----------------------------------------------------------------------------
(* C7 *)

\* C7: when render_template fails for a target, that call is the last thing
\* the run does (no directory, no file, no second attempt, no later target,
\* no tree pass), the run is aborted, the targets from that one on have
\* neither directory nor page, and the earlier targets keep their whole page.
C7_PatternFailureIsFatal ==
    \A k \in DOMAIN log :
        (log[k].op = "pattern" /\ ~log[k].ok) =>
            /\ k = Len(log)
            /\ pc = "aborted"
            /\ err # NoError
            /\ log[k].path = RenderPath(targets[ti])
            /\ \A j \in DOMAIN targets :
                IF j < ti
                THEN /\ RenderPath(targets[j]) \in DOMAIN fs
                     /\ fs[RenderPath(targets[j])] = Page(targets[j])
                     /\ Parent(RenderPath(targets[j])) \in dirs
                ELSE /\ RenderPath(targets[j]) \notin DOMAIN fs
                     /\ Parent(RenderPath(targets[j])) \notin dirs
                     /\ \A i \in DOMAIN log :
                         log[i].path \in {RenderPath(targets[j]), Parent(RenderPath(targets[j]))}
                             => i = k

C7_Witness ==
    /\ Len(targets) = 2
    /\ ti = 2
    /\ log # << >>
    /\ log[Len(log)].op = "pattern"
    /\ ~log[Len(log)].ok
    /\ RenderPath(targets[1]) \in DOMAIN fs

-----------------------------------------------------------------------------
(* C8 *)

\* C8: in the order of the I/O calls no call of the HTML pass follows a call
\* of the tree pass; the tree pass begins with the create of packages.json,
\* and only when the HTML pass has failed nowhere and has written the page of
\* every target; after a failure of the HTML pass the run is aborted.
C8_HtmlThenTree ==
    /\ \A k \in 1..(Len(log) - 1) : log[k].pass = "tree" => log[k + 1].pass = "tree"
    /\ \A k \in DOMAIN log :
        (log[k].pass = "tree" /\ (k = 1 \/ log[k - 1].pass = "html")) =>
            /\ log[k].op = "create"
            /\ log[k].path = PackagesJsonPath
    /\ TreeStarted =>
        /\ ~HtmlFailed
        /\ \A j \in DOMAIN targets :
            \E k \in DOMAIN log :
                /\ log[k].pass = "html" /\ log[k].op = "write" /\ log[k].ok
                /\ log[k].path = RenderPath(targets[j])
    /\ HtmlFailed => pc = "aborted"

C8_Witness ==
    /\ pc = "done"
    /\ Len(targets) = 2
    /\ Len(pkgs) = 1
    /\ Created(JsonPath(targets[2], pkgs[1]))

-----------------------------------------------------------------------------
(* C9 *)

\* C9: at most one File handle is alive at any point, and none is alive where
\* the next file, directory, target or package is about to be taken up, nor
\* when the run has ended, normally or by an abort.
C9_OneHandle ==
    /\ Cardinality(open) <= 1
    /\ pc \in {"html_path", "html_mkdir", "html_create", "pj_create", "t_mkdir", "row",
               "m_create", "j_create", "done", "aborted"} => open = {}

C9_Witness ==
    /\ pc = "j_date"
    /\ open = {JsonPath(targets[ti], pkgs[pi])}
    /\ Created(MarkerPath(targets[ti], pkgs[pi]))
    /\ Created(PackagesJsonPath)

-----------------------------------------------------------------------------
(* C10 *)

\* The files the I/O calls of the log from the k-th on make of `files`: a
\* successful create leaves its file empty, a write adds the data it got out.
RECURSIVE Replay(_, _)
Replay(k, files) ==
    IF k > Len(log) THEN files
    ELSE IF log[k].op = "create" /\ log[k].ok
         THEN Replay(k + 1, [q \in (DOMAIN files) \cup {log[k].path} |->
                                IF q = log[k].path THEN << >> ELSE files[q]])
    ELSE IF log[k].op = "write"
         THEN Replay(k + 1, [files EXCEPT ![log[k].path] = @ \o log[k].data])
    ELSE Replay(k + 1, files)

\* C10: in a run into the tree of an earlier run, no file and no directory
\* ever goes away, and a file the run has not created is an old one with its
\* old content; when the run has ended, the files are the old ones with every
\* file the run created emptied at that point and holding what the run wrote
\* to it since, and nothing else.
C10_Frame ==
    LET created == { log[k].path : k \in { i \in DOMAIN log : log[i].op = "create" /\ log[i].ok } }
    IN  /\ DOMAIN fs0 \subseteq DOMAIN fs
        /\ \A path \in DOMAIN fs0 : Parent(path) \in dirs
        /\ created \subseteq DOMAIN fs
        /\ \A path \in (DOMAIN fs) \ created :
            path \in DOMAIN fs0 /\ fs[path] = fs0[path]
        /\ pc \in {"done", "aborted"} => fs = Replay(1, fs0)

C10_Witness ==
    /\ pc = "done"
    /\ fs0 = StaleFs
    /\ Len(targets) = 1 /\ Len(pkgs) = 2
    /\ rows[<<targets[1], pkgs[1]>>].last_available = None
    /\ ~Matches(rows[<<targets[1], pkgs[1]>>])
    /\ fs[MarkerPath(targets[1], pkgs[1])] = MarkerLine(StaleDate)
    /\ ~Created(JsonPath(targets[1], pkgs[1]))
    /\ Created(MarkerPath(targets[1], pkgs[2]))
    /\ fs[MarkerPath(targets[1], pkgs[2])] # fs0[MarkerPath(targets[1], pkgs[2])]
    /\ MarkerPath(TargetPool[2], pkgs[1]) \in DOMAIN fs

====
